---- MODULE Spec2Model ----
(***************************************************************************)
(* netpath: the request-dispatch engine (route registry, path matcher,     *)
(* middleware composition, request context, session-type registry).        *)
(*                                                                         *)
(* Go strings are modelled as sequences of one-character strings, so that  *)
(* strings.Split, strings.HasPrefix, slicing and concatenation are         *)
(* computed and not assumed.                                               *)
(***************************************************************************)
EXTENDS Integers, Sequences, FiniteSets, TLC

(* ------------------------------ bounds --------------------------------- *)

\* longest pattern / path string handed to matchRoute in SpecMatch
MaxStrLen == 5

\* longest sequence of RegisterSessionType calls in SpecSession
MaxCalls == 4

\* most outcome-reporting operations invoked on one Context in SpecContext
MaxOps == 2

\* most set-up calls (App.Use, Router.Use, Group, GET, POST) made in Spec
MaxSetup == 3

\* the calls made into a connection pool in one run
MaxPoolOps == 3

\* the characters strings are made of: the separator, the parameter
\* sentinel and one ordinary character
Chars == {"/", ":", "a"}

RECURSIVE StrsOfLen(_)
StrsOfLen(n) ==
    IF n = 0 THEN {<<>>}
    ELSE {Append(s, c) : s \in StrsOfLen(n - 1), c \in Chars}

Strs == UNION {StrsOfLen(n) : n \in 0..MaxStrLen}

\* the goroutines that call into shared state at the same time
Procs == {1, 2}

(* ------------------------------ state ---------------------------------- *)

VARIABLES
    mPattern,   \* matchRoute: the pattern argument
    mPath,      \* matchRoute: the path argument
    mRes,       \* matchRoute: the returned (params, ok), or "not called"
    validSession,   \* the package-level map SessionType -> reflect.Type
    regLog,     \* history: the RegisterSessionType calls made so far
    ctx,        \* the Context of the request being handled
    opLog,      \* history: the outcome-reporting calls made on ctx
    routes,     \* Router.routes: method -> pattern -> routeEntry (shared)
    routers,    \* the Router values: routers[1] is app.router, then groups
    mw,         \* App.mw: the global middleware
    lineage,    \* history: how each Router was built by Group and Use
    regs,       \* history: the route registrations made so far
    served,     \* the last ServeHTTP call: what it did and answered
    poolKind,   \* which pool the run is about: "cache", "sql" or "gorm"
    pool,       \* the pool's map: alias -> client
    configs,    \* database.configs: name -> driver (gorm only)
    mu,         \* the pool's sync.RWMutex: the writer and the readers in it
    callers,    \* each goroutine's position in its Connect or Get call
    opened,     \* how many clients have been created so far
    poolLog,    \* history: the Connect and Get calls that have returned
    exited,     \* log.Fatalf has ended the process
    registrars, \* each goroutine's position inside RegisterSessionType
    crashed,    \* the Go runtime has stopped the program (concurrent map access)
    fetched     \* the last FetchSession call: its arguments and what it did

matchVars == <<mPattern, mPath, mRes>>

sessVars == <<validSession, regLog>>

ctxVars == <<ctx, opLog>>

appVars == <<routes, routers, mw, lineage, regs, served>>

poolVars == <<poolKind, pool, configs, mu, callers, opened, poolLog, exited>>

raceVars == <<registrars, crashed>>

fetchVars == <<fetched>>

vars == <<mPattern, mPath, mRes, validSession, regLog, ctx, opLog,
          routes, routers, mw, lineage, regs, served,
          poolKind, pool, configs, mu, callers, opened, poolLog, exited,
          registrars, crashed,
          fetched>>

(* --------------------------- path matcher ------------------------------ *)

\* strings.Split(s, "/"): the substrings between the separators; a string
\* with n separators gives n + 1 substrings (the empty string gives one).
RECURSIVE SplitAcc(_, _, _)
SplitAcc(s, cur, acc) ==
    IF s = <<>> THEN Append(acc, cur)
    ELSE IF Head(s) = "/" THEN SplitAcc(Tail(s), <<>>, Append(acc, cur))
    ELSE SplitAcc(Tail(s), Append(cur, Head(s)), acc)

Split(s) == SplitAcc(s, <<>>, <<>>)

\* strings.HasPrefix(seg, ":")
HasPrefix(seg) == Len(seg) >= 1 /\ seg[1] = ":"

\* parts[i][1:]
ParamName(seg) == Tail(seg)

\* (a map write that keeps the value a key already has)
MapPutKeepFirst(m, k, v) == m @@ (k :> v)

\* params[k] = v on a Go map: a later write to the same key replaces
MapPut(m, k, v) == (k :> v) @@ m

\* the (nil, false) result
NoMatch == [ok |-> FALSE, isNil |-> TRUE, params |-> <<>>]

\* the loop `for i := range parts` of matchRoute, from index i on
RECURSIVE MatchLoop(_, _, _, _)
MatchLoop(parts, pathParts, i, params) ==
    IF i > Len(parts) THEN [ok |-> TRUE, isNil |-> FALSE, params |-> params]
    ELSE IF HasPrefix(parts[i])
         THEN MatchLoop(parts, pathParts, i + 1,
                        MapPut(params, ParamName(parts[i]), pathParts[i]))
    ELSE IF parts[i] # pathParts[i] THEN NoMatch
    ELSE MatchLoop(parts, pathParts, i + 1, params)

\* (matchRoute that only rejects patterns longer than the path)
matchRouteAtLeast(pattern, path) ==
    LET parts == Split(pattern)
        pathParts == Split(path)
    IN  IF Len(parts) > Len(pathParts) THEN NoMatch
        ELSE MatchLoop(parts, pathParts, 1, <<>>)

matchRoute(pattern, path) ==
    LET parts == Split(pattern)
        pathParts == Split(path)
    IN  IF Len(parts) # Len(pathParts) THEN NoMatch
        ELSE MatchLoop(parts, pathParts, 1, <<>>)

(* ------------------- specification of the matcher ---------------------- *)

NotCalled == [ok |-> FALSE, isNil |-> TRUE, params |-> <<>>, called |-> FALSE]

Called(r) == [ok |-> r.ok, isNil |-> r.isNil, params |-> r.params, called |-> TRUE]

\* the matcher's variables when no call of matchRoute is being observed
MatchIdle ==
    /\ mPattern = <<>>
    /\ mPath = <<>>
    /\ mRes = NotCalled

CallMatchRoute ==
    /\ ~mRes.called
    /\ mRes' = Called(matchRoute(mPattern, mPath))
    /\ UNCHANGED <<mPattern, mPath>>

(* ----------------------- session type registry ------------------------- *)

\* the session struct types of the application and the SessionType values
Structs == {"AdminSession", "UserSession"}

Discs == {1, 2}

\* a Session interface value: nil, or a value whose dynamic type is the
\* struct (ptr = FALSE) or a pointer to it (ptr = TRUE) and whose Type()
\* method answers disc
NilSession == [nil |-> TRUE, ptr |-> FALSE, struct |-> "AdminSession", disc |-> 1]

Sessions ==
    {NilSession} \cup [nil : {FALSE}, ptr : BOOLEAN, struct : Structs, disc : Discs]

\* reflect.TypeOf(session)
TypeOf(session) == [ptr |-> session.ptr, name |-> session.struct]

\* reflect.Type.Elem() of a pointer type
Elem(t) == [ptr |-> FALSE, name |-> t.name]

\* modelType: the dynamic type, dereferenced when it is a pointer
ModelType(session) ==
    IF TypeOf(session).ptr THEN Elem(TypeOf(session)) ELSE TypeOf(session)

\* var validSession map[SessionType]reflect.Type: nil until first use
NilRegistry == [isNil |-> TRUE, m |-> <<>>]

\* make(map[SessionType]reflect.Type) when the map is nil
MakeIfNil(reg) == IF reg.isNil THEN [isNil |-> FALSE, m |-> <<>>] ELSE reg

\* (RegisterSessionType without the conflict check)
RegisterOverwrite(reg, session) ==
    IF session.nil
    THEN [panic |-> "ErrCannotBeNull", reg |-> reg]
    ELSE [panic |-> "none",
          reg |-> [MakeIfNil(reg) EXCEPT
                      !.m = MapPut(@, session.disc, ModelType(session))]]

\* (RegisterSessionType that stores the type before it checks for a conflict)
RegisterWriteThenCheck(reg, session) ==
    IF session.nil
    THEN [panic |-> "ErrCannotBeNull", reg |-> reg]
    ELSE LET made == MakeIfNil(reg)
             modelType == ModelType(session)
             exists == session.disc \in DOMAIN made.m
             stored == [made EXCEPT !.m = MapPut(made.m, session.disc, modelType)]
         IN  IF exists /\ made.m[session.disc] # modelType
             THEN [panic |-> "ErrConflict", reg |-> stored]
             ELSE [panic |-> "none", reg |-> stored]

\* RegisterSessionType(session) run on registry reg: the panic it raises
\* ("none" when it returns) and the registry it leaves behind
RegisterSessionType(reg, session) ==
    IF session.nil
    THEN [panic |-> "ErrCannotBeNull", reg |-> reg]
    ELSE LET made == MakeIfNil(reg)
             modelType == ModelType(session)
             exists == session.disc \in DOMAIN made.m
         IN  IF exists /\ made.m[session.disc] # modelType
             THEN [panic |-> "ErrConflict", reg |-> made]
             ELSE [panic |-> "none",
                   reg |-> [made EXCEPT !.m = MapPut(made.m, session.disc, modelType)]]

SessionIdle ==
    /\ validSession = NilRegistry
    /\ regLog = <<>>

\* one call of RegisterSessionType; a panic is recovered by the caller
Register ==
    /\ Len(regLog) < MaxCalls
    /\ \E session \in Sessions :
          LET r == RegisterSessionType(validSession, session)
          IN  /\ validSession' = r.reg
              /\ regLog' = Append(regLog, [session |-> session,
                                           panic |-> r.panic,
                                           before |-> validSession,
                                           after |-> r.reg])

(* ------------- RegisterSessionType called from two goroutines --------- *)

\* RegisterSessionType takes no lock: its reads and writes of validSession
\* are separate steps that another goroutine's steps can come between

NotRegistering ==
    [at |-> "idle", session |-> NilSession, sawNil |-> FALSE, exists |-> FALSE,
     existing |-> ModelType(NilSession), panic |-> "none"]

RaceIdle ==
    /\ registrars = [p \in Procs |-> NotRegistering]
    /\ crashed = FALSE

\* if session == nil { panic(faults.ErrCannotBeNull) }
CallRegister ==
    \E p \in Procs, session \in Sessions :
        /\ ~crashed
        /\ registrars[p].at = "idle"
        /\ registrars' = [registrars EXCEPT ![p] =
              IF session.nil
              THEN [@ EXCEPT !.at = "panicked", !.panic = "ErrCannotBeNull"]
              ELSE [@ EXCEPT !.at = "entered", !.session = session]]
        /\ UNCHANGED <<validSession, regLog, crashed>>

\* if validSession == nil: the read
RegisterNilCheck ==
    \E p \in Procs :
        /\ ~crashed
        /\ registrars[p].at = "entered"
        /\ registrars' = [registrars EXCEPT ![p].at = "checked",
                                            ![p].sawNil = validSession.isNil]
        /\ UNCHANGED <<validSession, regLog, crashed>>

\* validSession = make(map[SessionType]reflect.Type), when the read saw nil
RegisterMake ==
    \E p \in Procs :
        /\ ~crashed
        /\ registrars[p].at = "checked"
        /\ validSession' = IF registrars[p].sawNil
                           THEN [isNil |-> FALSE, m |-> <<>>]
                           ELSE validSession
        /\ registrars' = [registrars EXCEPT ![p].at = "made"]
        /\ UNCHANGED <<regLog, crashed>>

\* existing, exists := validSession[session.Type()]
RegisterLookup ==
    \E p \in Procs :
        LET disc == registrars[p].session.disc
            exists == disc \in DOMAIN validSession.m
        IN  /\ ~crashed
            /\ registrars[p].at = "made"
            /\ registrars' = [registrars EXCEPT
                  ![p].at = "looked",
                  ![p].exists = exists,
                  ![p].existing = IF exists THEN validSession.m[disc] ELSE @]
            /\ UNCHANGED <<validSession, regLog, crashed>>

\* the conflict panic, or validSession[session.Type()] = modelType
RegisterStore ==
    \E p \in Procs :
        LET r == registrars[p]
            modelType == ModelType(r.session)
        IN  /\ ~crashed
            /\ r.at = "looked"
            /\ IF r.exists /\ r.existing # modelType
               THEN /\ registrars' = [registrars EXCEPT ![p].at = "panicked",
                                                        ![p].panic = "ErrConflict"]
                    /\ UNCHANGED validSession
               ELSE /\ registrars' = [registrars EXCEPT ![p].at = "returned"]
                    /\ validSession' = [validSession EXCEPT
                                           !.m = MapPut(@, r.session.disc, modelType)]
            /\ UNCHANGED <<regLog, crashed>>

\* a map write that meets another goroutine's access to the same map may be
\* caught by the runtime: "fatal error: concurrent map writes"
RuntimeThrow ==
    \E p, q \in Procs :
        /\ ~crashed
        /\ p # q
        /\ registrars[p].at = "looked"
        /\ ~(registrars[p].exists /\ registrars[p].existing # ModelType(registrars[p].session))
        /\ registrars[q].at \in {"made", "looked"}
        /\ crashed' = TRUE
        /\ UNCHANGED <<validSession, regLog, registrars>>

(* --------------------------- request context --------------------------- *)

\* net/http status codes used by the outcome-reporting operations
StatusOK == 200

StatusUnauthorized == 401

StatusBadRequest == 400

StatusNotFound == 404

StatusForbidden == 403

StatusTooManyRequests == 429

StatusConflict == 409

StatusMethodNotAllowed == 405

StatusBadGateway == 502

StatusServiceUnavailable == 503

StatusInternalServerError == 500

\* the error values handed to the outcome-reporting operations: a fault
\* collection (faults.Errors), a structured fault (faults.Error, with a
\* Code()), or a plain error; text is what Error() answers
ErrKinds == {"errors", "fault", "plain"}

Errs == [kind : ErrKinds, text : {"missing field"}, code : {1001}]

\* the nil error
NoError == [kind |-> "nil", text |-> "", code |-> 0]

\* faults.LanguageTag values; "" is the zero value of a fresh Context
Locales == {"", "id"}

\* the data values handlers hand to Success
DataValues == {"payload"}

\* JSON values the operations encode.  shape "bare" is the value itself,
\* shape "description" is the object {"description": value}; localized
\* tells a locale-resolved message (for locale lang) from a raw text.
LocalizedError(err, locale) ==
    [shape |-> "bare", msg |-> err.text, localized |-> TRUE, lang |-> locale]

RawValue(text) ==
    [shape |-> "bare", msg |-> text, localized |-> FALSE, lang |-> ""]

Description(v) == [v EXCEPT !.shape = "description"]

\* map[string]any{"code": code, key: val}
Envelope(code, key, val) == [code |-> code, key |-> key, val |-> val]

\* the http.ResponseWriter of one request before anything is written
FreshWriter ==
    [wroteHeader |-> FALSE, status |-> 0, contentType |-> "",
     body |-> <<>>, headerCalls |-> <<>>, encodeErrs |-> 0]

\* &Context{writer: w, request: r}
NewContext ==
    [Params |-> <<>>, locale |-> "", session |-> NilSession,
     httpStatus |-> 0, writer |-> FreshWriter]

\* w.Header().Set("Content-Type", v): headers are fixed once written
SetContentType(w, v) ==
    IF w.wroteHeader THEN w ELSE [w EXCEPT !.contentType = v]

\* w.WriteHeader(code): only the first call decides the status line
WriteHeader(w, code) ==
    IF w.wroteHeader
    THEN [w EXCEPT !.headerCalls = Append(@, code)]
    ELSE [w EXCEPT !.wroteHeader = TRUE, !.status = code,
                   !.headerCalls = Append(@, code)]

\* json.NewEncoder(w).Encode(data): appends the document, or fails and
\* returns an error (encodeErrs counts the errors it has returned)
Encode(w, data, fail) ==
    IF fail THEN [w EXCEPT !.encodeErrs = @ + 1]
    ELSE [w EXCEPT !.body = Append(@, data)]

\* Context.JSON(code, data): the Context afterwards and the error returned
JSON(c, code, data, fail) ==
    [c |-> [c EXCEPT !.writer =
                Encode(WriteHeader(SetContentType(@, "application/json"), code),
                       data, fail)],
     err |-> IF fail THEN "encode error" ELSE "nil"]

\* Context.UseLocale
UseLocale(c, l) == [c EXCEPT !.locale = l]

\* Context.Success(data): the error of JSON is dropped, nil is returned
Success(c, data, fail) ==
    LET c1 == [c EXCEPT !.httpStatus = StatusOK]
    IN  [c |-> JSON(c1, StatusOK, Envelope(StatusOK, "data", RawValue(data)), fail).c,
         ret |-> NoError]

\* Context.Unauthorized(err)
Unauthorized(c, err, fail) ==
    LET c1 == [c EXCEPT !.httpStatus = StatusUnauthorized]
    IN  [c |-> IF err.kind = "errors"
               THEN JSON(c1, StatusUnauthorized,
                         Envelope(StatusUnauthorized, "data",
                                  LocalizedError(err, c1.locale)), fail).c
               ELSE IF err.kind = "fault"
               THEN JSON(c1, StatusUnauthorized,
                         Envelope(err.code, "data",
                                  Description(LocalizedError(err, c1.locale))), fail).c
               ELSE JSON(c1, StatusUnauthorized,
                         Envelope(StatusUnauthorized, "data",
                                  Description(RawValue(err.text))), fail).c,
         ret |-> err]

\* (BadInput that answers a plain error under the "error" key)
BadInputErrorKey(c, err, fail) ==
    LET c1 == [c EXCEPT !.httpStatus = StatusBadRequest]
    IN  [c |-> IF err.kind = "errors"
               THEN JSON(c1, StatusBadRequest,
                         Envelope(StatusBadRequest, "data",
                                  LocalizedError(err, c1.locale)), fail).c
               ELSE IF err.kind = "fault"
               THEN JSON(c1, StatusBadRequest,
                         Envelope(err.code, "data",
                                  Description(LocalizedError(err, c1.locale))), fail).c
               ELSE JSON(c1, StatusBadRequest,
                         Envelope(StatusBadRequest, "error",
                                  Description(RawValue(err.text))), fail).c,
         ret |-> err]

\* Context.BadInput(err)
BadInput(c, err, fail) ==
    LET c1 == [c EXCEPT !.httpStatus = StatusBadRequest]
    IN  [c |-> IF err.kind = "errors"
               THEN JSON(c1, StatusBadRequest,
                         Envelope(StatusBadRequest, "data",
                                  LocalizedError(err, c1.locale)), fail).c
               ELSE IF err.kind = "fault"
               THEN JSON(c1, StatusBadRequest,
                         Envelope(err.code, "data",
                                  Description(LocalizedError(err, c1.locale))), fail).c
               ELSE JSON(c1, StatusBadRequest,
                         Envelope(StatusBadRequest, "data",
                                  Description(RawValue(err.text))), fail).c,
         ret |-> err]

\* Context.NotFound(err)
NotFound(c, err, fail) ==
    LET c1 == [c EXCEPT !.httpStatus = StatusNotFound]
    IN  [c |-> IF err.kind = "errors"
               THEN JSON(c1, StatusNotFound,
                         Envelope(StatusNotFound, "data",
                                  LocalizedError(err, c1.locale)), fail).c
               ELSE IF err.kind = "fault"
               THEN JSON(c1, StatusNotFound,
                         Envelope(err.code, "data",
                                  Description(LocalizedError(err, c1.locale))), fail).c
               ELSE JSON(c1, StatusNotFound,
                         Envelope(StatusNotFound, "data",
                                  Description(RawValue(err.text))), fail).c,
         ret |-> err]

\* Context.Forbidden(err)
Forbidden(c, err, fail) ==
    LET c1 == [c EXCEPT !.httpStatus = StatusForbidden]
    IN  [c |-> IF err.kind = "errors"
               THEN JSON(c1, StatusForbidden,
                         Envelope(StatusForbidden, "data",
                                  LocalizedError(err, c1.locale)), fail).c
               ELSE IF err.kind = "fault"
               THEN JSON(c1, StatusForbidden,
                         Envelope(err.code, "data",
                                  Description(LocalizedError(err, c1.locale))), fail).c
               ELSE JSON(c1, StatusForbidden,
                         Envelope(StatusForbidden, "data",
                                  Description(RawValue(err.text))), fail).c,
         ret |-> err]

\* Context.TooManyRequest(err)
TooManyRequest(c, err, fail) ==
    LET c1 == [c EXCEPT !.httpStatus = StatusTooManyRequests]
    IN  [c |-> IF err.kind = "errors"
               THEN JSON(c1, StatusTooManyRequests,
                         Envelope(StatusTooManyRequests, "data",
                                  LocalizedError(err, c1.locale)), fail).c
               ELSE IF err.kind = "fault"
               THEN JSON(c1, StatusTooManyRequests,
                         Envelope(err.code, "data",
                                  Description(LocalizedError(err, c1.locale))), fail).c
               ELSE JSON(c1, StatusTooManyRequests,
                         Envelope(StatusTooManyRequests, "data",
                                  Description(RawValue(err.text))), fail).c,
         ret |-> err]

\* Context.Conflict(err)
Conflict(c, err, fail) ==
    LET c1 == [c EXCEPT !.httpStatus = StatusConflict]
    IN  [c |-> IF err.kind = "errors"
               THEN JSON(c1, StatusConflict,
                         Envelope(StatusConflict, "data",
                                  LocalizedError(err, c1.locale)), fail).c
               ELSE IF err.kind = "fault"
               THEN JSON(c1, StatusConflict,
                         Envelope(err.code, "data",
                                  Description(LocalizedError(err, c1.locale))), fail).c
               ELSE JSON(c1, StatusConflict,
                         Envelope(StatusConflict, "data",
                                  Description(RawValue(err.text))), fail).c,
         ret |-> err]

\* Context.NotAllowed(err)
NotAllowed(c, err, fail) ==
    LET c1 == [c EXCEPT !.httpStatus = StatusMethodNotAllowed]
    IN  [c |-> IF err.kind = "errors"
               THEN JSON(c1, StatusMethodNotAllowed,
                         Envelope(StatusMethodNotAllowed, "data",
                                  LocalizedError(err, c1.locale)), fail).c
               ELSE IF err.kind = "fault"
               THEN JSON(c1, StatusMethodNotAllowed,
                         Envelope(err.code, "data",
                                  Description(LocalizedError(err, c1.locale))), fail).c
               ELSE JSON(c1, StatusMethodNotAllowed,
                         Envelope(StatusMethodNotAllowed, "error",
                                  Description(RawValue(err.text))), fail).c,
         ret |-> err]

\* Context.BadGateway(err)
BadGateway(c, err, fail) ==
    LET c1 == [c EXCEPT !.httpStatus = StatusBadGateway]
    IN  [c |-> IF err.kind = "errors"
               THEN JSON(c1, StatusBadGateway,
                         Envelope(StatusBadGateway, "data",
                                  LocalizedError(err, c1.locale)), fail).c
               ELSE IF err.kind = "fault"
               THEN JSON(c1, StatusBadGateway,
                         Envelope(err.code, "data",
                                  Description(LocalizedError(err, c1.locale))), fail).c
               ELSE JSON(c1, c1.httpStatus,
                         Envelope(StatusBadGateway, "error",
                                  Description(RawValue(err.text))), fail).c,
         ret |-> err]

\* (Unavailable that writes c.httpStatus before it has recorded the status)
UnavailableWritesFirst(c, err, fail) ==
    LET c1 == JSON(c, c.httpStatus,
                   Envelope(StatusServiceUnavailable, "error",
                            Description(RawValue(err.text))), fail).c
    IN  [c |-> [c1 EXCEPT !.httpStatus = StatusServiceUnavailable], ret |-> err]

\* Context.Unavailable(err)
Unavailable(c, err, fail) ==
    LET c1 == [c EXCEPT !.httpStatus = StatusServiceUnavailable]
    IN  [c |-> IF err.kind = "errors"
               THEN JSON(c1, StatusServiceUnavailable,
                         Envelope(StatusServiceUnavailable, "data",
                                  LocalizedError(err, c1.locale)), fail).c
               ELSE IF err.kind = "fault"
               THEN JSON(c1, StatusServiceUnavailable,
                         Envelope(err.code, "data",
                                  Description(LocalizedError(err, c1.locale))), fail).c
               ELSE JSON(c1, c1.httpStatus,
                         Envelope(StatusServiceUnavailable, "error",
                                  Description(RawValue(err.text))), fail).c,
         ret |-> err]

\* Context.ServerError(err)
ServerError(c, err, fail) ==
    LET c1 == [c EXCEPT !.httpStatus = StatusInternalServerError]
    IN  [c |-> IF err.kind = "errors"
               THEN JSON(c1, StatusInternalServerError,
                         Envelope(StatusInternalServerError, "data",
                                  LocalizedError(err, c1.locale)), fail).c
               ELSE IF err.kind = "fault"
               THEN JSON(c1, StatusInternalServerError,
                         Envelope(err.code, "data",
                                  Description(LocalizedError(err, c1.locale))), fail).c
               ELSE JSON(c1, c1.httpStatus,
                         Envelope(StatusInternalServerError, "error",
                                  Description(RawValue(err.text))), fail).c,
         ret |-> err]

\* the outcome-reporting operations that take an error, by name
ErrOps == {"Unauthorized", "BadInput", "NotFound", "Forbidden", "TooManyRequest",
           "Conflict", "NotAllowed", "BadGateway", "Unavailable", "ServerError"}

ContextIdle ==
    /\ ctx = NewContext
    /\ opLog = <<>>

\* a new request: ServeHTTP builds a fresh Context
FreshRequest ==
    /\ opLog # <<>>
    /\ ctx' = NewContext
    /\ opLog' = <<>>

CallUseLocale ==
    /\ opLog = <<>>
    /\ \E l \in Locales : l # ctx.locale /\ ctx' = UseLocale(ctx, l)
    /\ UNCHANGED opLog

\* the effect of one outcome-reporting call on ctx and on the history
Invoke(op, arg, fail, r) ==
    /\ Len(opLog) < MaxOps
    /\ ctx' = r.c
    /\ opLog' = Append(opLog, [op |-> op, arg |-> arg, fail |-> fail, ret |-> r.ret,
                               before |-> ctx, after |-> r.c])

CallSuccess ==
    \E d \in DataValues, fail \in BOOLEAN :
        Invoke("Success", [kind |-> "data", text |-> d, code |-> 0], fail,
               Success(ctx, d, fail))

CallUnauthorized ==
    \E err \in Errs, fail \in BOOLEAN : Invoke("Unauthorized", err, fail, Unauthorized(ctx, err, fail))

CallBadInput ==
    \E err \in Errs, fail \in BOOLEAN : Invoke("BadInput", err, fail, BadInput(ctx, err, fail))

CallNotFound ==
    \E err \in Errs, fail \in BOOLEAN : Invoke("NotFound", err, fail, NotFound(ctx, err, fail))

CallForbidden ==
    \E err \in Errs, fail \in BOOLEAN : Invoke("Forbidden", err, fail, Forbidden(ctx, err, fail))

CallTooManyRequest ==
    \E err \in Errs, fail \in BOOLEAN : Invoke("TooManyRequest", err, fail, TooManyRequest(ctx, err, fail))

CallConflict ==
    \E err \in Errs, fail \in BOOLEAN : Invoke("Conflict", err, fail, Conflict(ctx, err, fail))

CallNotAllowed ==
    \E err \in Errs, fail \in BOOLEAN : Invoke("NotAllowed", err, fail, NotAllowed(ctx, err, fail))

CallBadGateway ==
    \E err \in Errs, fail \in BOOLEAN : Invoke("BadGateway", err, fail, BadGateway(ctx, err, fail))

CallUnavailable ==
    \E err \in Errs, fail \in BOOLEAN : Invoke("Unavailable", err, fail, Unavailable(ctx, err, fail))

CallServerError ==
    \E err \in Errs, fail \in BOOLEAN : Invoke("ServerError", err, fail, ServerError(ctx, err, fail))

(* ------------------------- Context.FetchSession ------------------------ *)

\* the type of what dst points to: the interface Session (or any), a session
\* struct, or a pointer to one
SessionIface == [iface |-> TRUE, ptr |-> FALSE, name |-> ""]

ElemTypes == {SessionIface} \cup [iface : {FALSE}, ptr : BOOLEAN, name : Structs]

\* the dst argument: the nil interface, a value that is not a pointer, a nil
\* pointer, or a pointer to a variable of type elem that holds val
NilDst == [kind |-> "nil", elem |-> SessionIface, val |-> NilSession]

Dsts ==
    {NilDst, [NilDst EXCEPT !.kind = "value"]}
        \cup [kind : {"nilptr", "ptr"}, elem : ElemTypes, val : {NilSession}]

\* srcVal.Type().AssignableTo(dstElem.Type()): the types are identical, or
\* the destination is an interface the session implements
AssignableTo(t, u) == u.iface \/ (u.ptr = t.ptr /\ u.name = t.name)

\* what FetchSession did: the error returned, the destination afterwards
Fetched(err, dst) == [err |-> err, dst |-> dst]

\* (FetchSession without the comparison against the registered type)
FetchSessionUnchecked(c, reg, dst) ==
    IF c.session.nil THEN Fetched("ErrUnauthorized", dst)
    ELSE IF dst.kind = "nil" THEN Fetched("ErrCannotBeNull", dst)
    ELSE IF c.session.disc \notin DOMAIN reg.m THEN Fetched("ErrUnauthorized", dst)
    ELSE IF dst.kind # "ptr" THEN Fetched("ErrTypeMismatch", dst)
    ELSE IF ~AssignableTo(TypeOf(c.session), dst.elem)
    THEN Fetched("ErrTypeMismatch", dst)
    ELSE Fetched("nil", [dst EXCEPT !.val = c.session])

\* Context.FetchSession(dst) with the registry reg
FetchSession(c, reg, dst) ==
    IF c.session.nil THEN Fetched("ErrUnauthorized", dst)
    ELSE IF dst.kind = "nil" THEN Fetched("ErrCannotBeNull", dst)
    ELSE IF c.session.disc \notin DOMAIN reg.m THEN Fetched("ErrUnauthorized", dst)
    ELSE IF dst.kind # "ptr" THEN Fetched("ErrTypeMismatch", dst)
    ELSE LET expectedType == reg.m[c.session.disc]
             srcType == TypeOf(c.session)
         IN  IF srcType.ptr /\ Elem(srcType) # expectedType
             THEN Fetched("ErrTypeMismatch", dst)
             ELSE IF ~srcType.ptr /\ srcType # expectedType
             THEN Fetched("ErrTypeMismatch", dst)
             ELSE IF ~AssignableTo(srcType, dst.elem)
             THEN Fetched("ErrTypeMismatch", dst)
             ELSE Fetched("nil", [dst EXCEPT !.val = c.session])

\* Context.SetSession(session)
SetSession(c, session) == [c EXCEPT !.session = session]

\* the registries one more RegisterSessionType call can leave behind
OneMore(regs0) ==
    regs0 \cup {RegisterSessionType(reg, session).reg : reg \in regs0, session \in Sessions}

\* the registries the application can have built before it serves requests
Registries == OneMore(OneMore({NilRegistry}))

NotFetched ==
    [called |-> FALSE, session |-> NilSession, dst |-> NilDst, err |-> "nil",
     after |-> NilDst]

FetchIdle == fetched = NotFetched

CallSetSession ==
    /\ \E session \in Sessions : ctx' = SetSession(ctx, session)
    /\ fetched' = NotFetched
    /\ UNCHANGED <<opLog, validSession, regLog>>

CallFetchSession ==
    /\ \E dst \in Dsts :
          LET r == FetchSession(ctx, validSession, dst)
          IN  fetched' = [called |-> TRUE, session |-> ctx.session, dst |-> dst,
                          err |-> r.err, after |-> r.dst]
    /\ UNCHANGED <<ctx, opLog, validSession, regLog>>

(* ------------------- route registry and dispatcher --------------------- *)

\* the middleware and terminal handlers of the application.  A middleware
\* is the README's logging middleware: it notes its entry, calls next,
\* notes its exit and returns what next returned.
Middlewares == {"A", "B", "C", "D"}

\* hSuccess returns ctx.Success(data), hBadInput returns ctx.BadInput(err)
\* for a plain error, hFail returns a plain error and writes nothing
Handlers == {"hSuccess", "hBadInput", "hFail"}

\* the call sites of the application: the arguments of Use, of Group and
\* of GET / POST.  "/a" is a literal segment, "/:a" a parameter segment.
UseCalls == {<<"A", "B">>}

GroupCalls ==
    {[prefix |-> <<"/", "a">>, mws |-> <<"A">>],
     [prefix |-> <<"/", ":", "a">>, mws |-> <<"B">>],
     [prefix |-> <<"/", "a">>, mws |-> <<>>]}

RouteCalls ==
    {[path |-> <<"/", "a">>, h |-> "hSuccess", mws |-> <<>>],
     [path |-> <<"/", ":", "a">>, h |-> "hBadInput", mws |-> <<"C", "D">>],
     [path |-> <<"/", "a">>, h |-> "hFail", mws |-> <<"C", "D">>]}

\* the requests that arrive
ReqMethods == {"GET", "POST", "PUT"}

ReqPaths ==
    {<<"/", "a">>, <<"/", "a", "/">>, <<"/", "a", "/", "a">>,
     <<"/", "a", "/", "a", "/", "a">>}

\* New(): one Router with an empty route table, no global middleware
NewRouter == [prefix |-> <<>>, middleware |-> <<>>]

\* App.Use(mw...)
AppUse(appMw, mws) == appMw \o mws

\* Router.Use(mws...)
RouterUse(r, mws) == [r EXCEPT !.middleware = @ \o mws]

\* (Group that does not inherit the middleware of its parent)
GroupOwnMiddlewareOnly(r, prefix, mws) ==
    [prefix |-> r.prefix \o prefix, middleware |-> <<>> \o mws]

\* Router.Group(prefix, mws...): the new Router (it shares r.routes)
Group(r, prefix, mws) ==
    [prefix |-> r.prefix \o prefix,
     middleware |-> <<>> \o (r.middleware \o mws)]

\* (a handle that stores the entry under the pattern for every method that has
\* a table, not only for its own)
handleEveryMethod(table, r, method, path, h, mws) ==
    LET entry == [handler |-> h, middleware |-> (<<>> \o r.middleware) \o mws]
        own == MapPut(table, method,
                      MapPut(IF method \in DOMAIN table THEN table[method] ELSE <<>>,
                             path, entry))
    IN  [m \in DOMAIN own |-> MapPut(own[m], path, entry)]

\* Router.handle(method, path, h, mws...): the route table afterwards
handle(table, r, method, path, h, mws) ==
    LET methodTable == IF method \in DOMAIN table THEN table[method] ELSE <<>>
        allMiddleware == (<<>> \o r.middleware) \o mws
        entry == [handler |-> h, middleware |-> allMiddleware]
    IN  MapPut(table, method, MapPut(methodTable, path, entry))

\* Router.GET(path, h, mws...)
GET(table, r, path, h, mws) == handle(table, r, "GET", r.prefix \o path, h, mws)

\* Router.POST(path, h, mws...)
POST(table, r, path, h, mws) == handle(table, r, "POST", r.prefix \o path, h, mws)

\* what a layer notes when it is entered / left, and the terminal handler
EnterEv(id) == [ev |-> "enter", id |-> id]

ExitEv(id) == [ev |-> "exit", id |-> id]

HandlerEv(id) == [ev |-> "handler", id |-> id]

\* a HandlerFunc value: the layers it runs, outermost first, the terminal
\* handler last.  m(next) for a middleware m puts m around next.
Wrap(m, next) == <<m>> \o next

\* (the wrapping loop run upwards, from the first middleware to the last)
WrapAllForward(mws, i, final) == [k \in 1..i |-> mws[i + 1 - k]] \o final

\* for i := len(mws) - 1; i >= 0; i-- { final = mws[i](final) }
RECURSIVE WrapAll(_, _, _)
WrapAll(mws, i, final) ==
    IF i < 1 THEN final ELSE WrapAll(mws, i - 1, Wrap(mws[i], final))

\* (the two wrapping loops of ServeHTTP in the other order)
ComposeGlobalFirst(entry, appMw) ==
    WrapAll(entry.middleware, Len(entry.middleware),
            WrapAll(appMw, Len(appMw), <<entry.handler>>))

\* the composed handler of ServeHTTP: the entry's chain, then app.mw
Compose(entry, appMw) ==
    WrapAll(appMw, Len(appMw), WrapAll(entry.middleware, Len(entry.middleware),
                                       <<entry.handler>>))

\* the plain error terminal handlers report
HandlerError == [kind |-> "plain", text |-> "missing field", code |-> 1001]

\* the error json.Encoder.Encode returns
EncodeError == [kind |-> "plain", text |-> "encode error", code |-> 0]

\* fmt.Errorf("internal panic recover")
RecoverError == [kind |-> "plain", text |-> "internal panic recover", code |-> 0]

\* the layers that unwind the stack: the terminal handlers hPanic (panics at
\* once) and hWritePanic (panics after ctx.Success), the middleware "P"
\* (panics before it calls next)
PanicEv(id) == [ev |-> "panic", id |-> id]

RecoverEv(id) == [ev |-> "recover", id |-> id]

\* what a layer did: the Context afterwards, the error returned (when it
\* returned), whether it panicked instead
Returns(c, ret) == [c |-> c, ret |-> ret, panicked |-> FALSE]

Panics(c) == [c |-> c, ret |-> NoError, panicked |-> TRUE]

\* the terminal handler h run on Context c.  hJSON is the README's handler:
\* return ctx.JSON(http.StatusOK, data)
RunHandler(h, c, fail) ==
    IF h = "hSuccess"
    THEN LET r == Success(c, "payload", fail) IN Returns(r.c, r.ret)
    ELSE IF h = "hBadInput"
    THEN LET r == BadInput(c, HandlerError, fail) IN Returns(r.c, r.ret)
    ELSE IF h = "hJSON"
    THEN LET r == JSON(c, StatusOK, Envelope(StatusOK, "data", RawValue("payload")),
                       fail)
         IN  Returns(r.c, IF r.err = "nil" THEN NoError ELSE EncodeError)
    ELSE IF h = "hPanic" THEN Panics(c)
    ELSE IF h = "hWritePanic" THEN Panics(Success(c, "payload", fail).c)
    ELSE Returns(c, HandlerError)

\* (a Recover that answers with the server error but returns nil)
RecoverReturnsNil(r, id, fail) ==
    IF r.panicked
    THEN [c |-> ServerError(r.c, RecoverError, fail).c, ret |-> NoError,
          events |-> r.events \o <<RecoverEv(id)>>, panicked |-> FALSE]
    ELSE r

\* middleware.Recover around a next that did r: the deferred function
\* recovers the panic, sets the named result and calls ctx.ServerError(err)
Recover(r, id, fail) ==
    IF r.panicked
    THEN [c |-> ServerError(r.c, RecoverError, fail).c, ret |-> RecoverError,
          events |-> r.events \o <<RecoverEv(id)>>, panicked |-> FALSE]
    ELSE r

\* final(ctx): the Context afterwards, the error returned, the events noted,
\* whether a panic left it.  A panic skips what a logging middleware does
\* after next(ctx).
RECURSIVE Call(_, _, _)
Call(final, c, fail) ==
    IF Len(final) = 1
    THEN LET r == RunHandler(final[1], c, fail)
         IN  [c |-> r.c, ret |-> r.ret,
              events |-> <<IF r.panicked THEN PanicEv(final[1])
                           ELSE HandlerEv(final[1])>>,
              panicked |-> r.panicked]
    ELSE IF final[1] = "P"
    THEN [c |-> c, ret |-> NoError, events |-> <<PanicEv("P")>>, panicked |-> TRUE]
    ELSE LET r == Call(Tail(final), c, fail)
         IN  IF final[1] = "R" THEN Recover(r, "R", fail)
             ELSE IF r.panicked
             THEN [r EXCEPT !.events = <<EnterEv(final[1])>> \o @]
             ELSE [r EXCEPT !.events = <<EnterEv(final[1])>> \o @
                                          \o <<ExitEv(final[1])>>]

NoEntry == [handler |-> "", middleware |-> <<>>]

NoLog == [method |-> "", status |-> 0, path |-> <<>>, message |-> ""]

NotServed ==
    [called |-> FALSE, method |-> "", path |-> <<>>, found |-> FALSE,
     route |-> <<>>, entry |-> NoEntry, appMw |-> <<>>, events |-> <<>>,
     c |-> NewContext, ret |-> NoError, panicked |-> FALSE,
     logged |-> FALSE, log |-> NoLog]

\* http.NotFound(w, r)
HttpNotFound(w) ==
    Encode(WriteHeader(SetContentType(w, "text/plain; charset=utf-8"), StatusNotFound),
           Envelope(StatusNotFound, "text", RawValue("404 page not found")), FALSE)

\* (a dispatcher that sends the 404 from inside the global middleware)
ServeNotFoundThroughGlobal(method, path, appMw) ==
    [NotServed EXCEPT !.called = TRUE, !.method = method, !.path = path,
                      !.appMw = appMw,
                      !.events = [k \in 1..Len(appMw) |-> EnterEv(appMw[k])]
                                   \o [k \in 1..Len(appMw) |->
                                          ExitEv(appMw[Len(appMw) + 1 - k])],
                      !.c = [NewContext EXCEPT !.writer = HttpNotFound(@)]]

\* ServeHTTP when no route matched: the response is sent, nothing else runs
ServeNotFound(method, path, appMw) ==
    [NotServed EXCEPT !.called = TRUE, !.method = method, !.path = path,
                      !.appMw = appMw,
                      !.c = [NewContext EXCEPT !.writer = HttpNotFound(@)]]

\* ServeHTTP when the range loop stopped at `route`; a panic that reaches
\* ServeHTTP leaves it before the log line
ServeFound(method, path, route, entry, appMw, fail) ==
    LET c0 == [NewContext EXCEPT !.Params = matchRoute(route, path).params]
        final == Compose(entry, appMw)
        r == Call(final, c0, fail)
        message == IF r.ret = NoError THEN "success" ELSE r.ret.text
    IN  [called |-> TRUE, method |-> method, path |-> path, found |-> TRUE,
         route |-> route, entry |-> entry, appMw |-> appMw, events |-> r.events,
         c |-> r.c, ret |-> r.ret, panicked |-> r.panicked,
         logged |-> ~r.panicked,
         log |-> IF r.panicked THEN NoLog
                 ELSE [method |-> method, status |-> r.c.httpStatus, path |-> path,
                       message |-> message]]

\* the patterns of the method's table the path matches; a Go map is ranged
\* over in an unspecified order, so the loop may stop at any of them
Candidates(table, method, path) ==
    IF method \in DOMAIN table
    THEN {route \in DOMAIN table[method] : matchRoute(route, path).ok}
    ELSE {}

AppIdle ==
    /\ routes = <<>>
    /\ routers = <<NewRouter>>
    /\ mw = <<>>
    /\ lineage = <<[prefixes |-> <<>>, mws |-> <<>>, used |-> FALSE, uses |-> <<>>]>>
    /\ regs = <<>>
    /\ served = NotServed

\* the set-up calls made so far
Setups == (Len(routers) - 1) + Len(regs) + Len(lineage[1].uses)

\* App.Use; what was observed of the last request is forgotten whenever
\* the configuration changes
AppUses(calls) ==
    /\ Setups < MaxSetup
    /\ \E mws \in calls : mw' = AppUse(mw, mws)
    /\ lineage' = [lineage EXCEPT ![1].uses = Append(@, "App")]
    /\ served' = NotServed
    /\ UNCHANGED <<routes, routers, regs>>

CallAppUse == AppUses(UseCalls)

CallRouterUse ==
    /\ Setups < MaxSetup
    /\ \E i \in 1..Len(routers), mws \in UseCalls :
          /\ routers' = [routers EXCEPT ![i] = RouterUse(@, mws)]
          /\ lineage' = [lineage EXCEPT ![i].used = TRUE,
                                        ![1].uses = Append(@, "Router")]
    /\ served' = NotServed
    /\ UNCHANGED <<routes, mw, regs>>

CallGroup ==
    /\ Setups < MaxSetup
    /\ \E i \in 1..Len(routers), g \in GroupCalls :
          /\ routers' = Append(routers, Group(routers[i], g.prefix, g.mws))
          /\ lineage' = Append(lineage,
                               [prefixes |-> Append(lineage[i].prefixes, g.prefix),
                                mws |-> Append(lineage[i].mws, g.mws),
                                used |-> lineage[i].used,
                                uses |-> <<>>])
    /\ served' = NotServed
    /\ UNCHANGED <<routes, mw, regs>>

Registered(i, method, call) ==
    regs' = Append(regs, [method |-> method, path |-> call.path, handler |-> call.h,
                          mws |-> call.mws, prefixes |-> lineage[i].prefixes,
                          groupMws |-> lineage[i].mws, used |-> lineage[i].used])

GETs(calls) ==
    /\ Setups < MaxSetup
    /\ \E i \in 1..Len(routers), call \in calls :
          /\ routes' = GET(routes, routers[i], call.path, call.h, call.mws)
          /\ Registered(i, "GET", call)
    /\ served' = NotServed
    /\ UNCHANGED <<routers, mw, lineage>>

CallGET == GETs(RouteCalls)

CallPOST ==
    /\ Setups < MaxSetup
    /\ \E i \in 1..Len(routers), call \in RouteCalls :
          /\ routes' = POST(routes, routers[i], call.path, call.h, call.mws)
          /\ Registered(i, "POST", call)
    /\ served' = NotServed
    /\ UNCHANGED <<routers, mw, lineage>>

ServeHTTP ==
    /\ \E method \in ReqMethods, path \in ReqPaths :
          IF Candidates(routes, method, path) = {}
          THEN served' = ServeNotFound(method, path, mw)
          ELSE \E route \in Candidates(routes, method, path), fail \in BOOLEAN :
                  served' = ServeFound(method, path, route, routes[method][route],
                                       mw, fail)
    /\ UNCHANGED <<routes, routers, mw, lineage, regs>>

\* an application that installs the bundled Recover middleware ("R"), with
\* layers that panic: its Use and GET call sites
RecoverUseCalls == {<<"R">>, <<"A">>}

RecoverRouteCalls ==
    {[path |-> <<"/", "a">>, h |-> "hPanic", mws |-> <<>>],
     [path |-> <<"/", "a">>, h |-> "hPanic", mws |-> <<"C", "R">>],
     [path |-> <<"/", "a">>, h |-> "hSuccess", mws |-> <<"P">>],
     [path |-> <<"/", "a">>, h |-> "hWritePanic", mws |-> <<"C">>],
     [path |-> <<"/", "a">>, h |-> "hJSON", mws |-> <<>>]}

CallAppUseRecover == AppUses(RecoverUseCalls)

CallGETRecover == GETs(RecoverRouteCalls)

(* -------------------------- connection pools --------------------------- *)

\* cache.Pool() (redis), tools.DBPool() (database/sql), package database (gorm)
PoolKinds == {"cache", "sql", "gorm"}

Aliases == {"main", "replica"}

\* cfg.Driver: the two supported names and one that is not
Drivers == {"mysql", "postgres", "oracle"}

\* how the new client's first contact with the server goes
Dials == {"ok", "open error", "ping error"}

\* the errors each pool's Connect can meet: redis.NewClient cannot fail,
\* gorm.Open connects by itself
DialsOf(kind) ==
    IF kind = "cache" THEN {"ok", "ping error"}
    ELSE IF kind = "sql" THEN Dials
    ELSE {"ok", "open error"}

\* the client number `id`; usable when its server answered
Client(id, dial) == [id |-> id, usable |-> dial = "ok"]

NoClient == [id |-> 0, usable |-> FALSE]

\* what a Connect call did: the map afterwards, the error returned ("nil" or
\* "error"), whether log.Fatalf was called, how many clients it created
Returned(p, ret, n) == [pool |-> p, ret |-> ret, fatal |-> FALSE, opened |-> n]

Fatal(p, n) == [pool |-> p, ret |-> "none", fatal |-> TRUE, opened |-> n]

\* (a Connect that never finds the alias: the early return is missing)
ExistsNever(p, alias) == FALSE

\* if _, exists := rc.pool[alias]; exists
Exists(p, alias) == alias \in DOMAIN p

\* (a Connect that stores the client before it pings it)
cachePoolConnectStoreFirst(p, alias, dial, id) ==
    IF Exists(p, alias) THEN Returned(p, "nil", 0)
    ELSE IF dial # "ok" THEN Returned(MapPut(p, alias, Client(id, dial)), "error", 1)
    ELSE Returned(MapPut(p, alias, Client(id, dial)), "nil", 1)

\* func (rc *cachePool) Connect, between Lock and the deferred Unlock
cachePoolConnect(p, alias, dial, id) ==
    IF Exists(p, alias) THEN Returned(p, "nil", 0)
    ELSE IF dial # "ok" THEN Returned(p, "error", 1)
    ELSE Returned(MapPut(p, alias, Client(id, dial)), "nil", 1)

\* func (dbc *dbPool) Connect, between Lock and the deferred Unlock
dbPoolConnect(p, alias, driver, dial, id) ==
    IF Exists(p, alias) THEN Returned(p, "nil", 0)
    ELSE IF driver \notin {"mysql", "postgres"} THEN Fatal(p, 0)
    ELSE IF dial = "open error" THEN Returned(p, "error", 0)
    ELSE IF dial = "ping error" THEN Returned(p, "error", 1)
    ELSE Returned(MapPut(p, alias, Client(id, dial)), "nil", 1)

\* func Connect of package database, between Lock and the deferred Unlock
databaseConnect(p, cfgs, name, dial, id) ==
    IF Exists(p, name) THEN Returned(p, "nil", 0)
    ELSE IF name \notin DOMAIN cfgs THEN Fatal(p, 0)
    ELSE IF cfgs[name] \notin {"mysql", "postgres"} THEN Fatal(p, 0)
    ELSE IF dial # "ok" THEN Fatal(p, 0)
    ELSE Returned(MapPut(p, name, Client(id, dial)), "nil", 1)

\* Connect of the pool `kind`
Connect(kind, p, cfgs, alias, driver, dial, id) ==
    IF kind = "cache" THEN cachePoolConnect(p, alias, dial, id)
    ELSE IF kind = "sql" THEN dbPoolConnect(p, alias, driver, dial, id)
    ELSE databaseConnect(p, cfgs, alias, dial, id)

\* what a Get call did: the map afterwards, the client and error returned
Got(p, client, ret, fatal) ==
    [pool |-> p, client |-> client, ret |-> ret, fatal |-> fatal, opened |-> 0]

\* func (rc *cachePool) Get, between RLock and the deferred RUnlock
cachePoolGet(p, alias, id) ==
    IF alias \in DOMAIN p THEN Got(p, p[alias], "nil", FALSE)
    ELSE Got(p, NoClient, "error", FALSE)

\* func (dbc *dbPool) Get, between RLock and the deferred RUnlock
dbPoolGet(p, name, id) ==
    IF name \in DOMAIN p THEN Got(p, p[name], "nil", FALSE)
    ELSE Got(p, NoClient, "error", FALSE)

\* func Get of package database: log.Fatalf when the name is not connected
databaseGet(p, name, id) ==
    IF name \in DOMAIN p THEN Got(p, p[name], "nil", FALSE)
    ELSE Got(p, NoClient, "none", TRUE)

\* Get of the pool `kind`
Get(kind, p, alias, id) ==
    IF kind = "cache" THEN cachePoolGet(p, alias, id)
    ELSE IF kind = "sql" THEN dbPoolGet(p, alias, id)
    ELSE databaseGet(p, alias, id)

\* func AddConnection of package database: configs[name] = config
AddConnection(cfgs, name, driver) == MapPut(cfgs, name, driver)

NoCall ==
    [at |-> "idle", op |-> "", alias |-> "", driver |-> "",
     boundAtCall |-> FALSE, clientAtCall |-> NoClient]

Unlocked == [writer |-> 0, readers |-> {}]

PoolIdle ==
    /\ poolKind = "cache"
    /\ pool = <<>>
    /\ configs = <<>>
    /\ mu = Unlocked
    /\ callers = [p \in Procs |-> NoCall]
    /\ opened = 0
    /\ poolLog = <<>>
    /\ exited = FALSE

\* the calls made so far, returned or not
PoolCalls == Len(poolLog) + Cardinality({p \in Procs : callers[p].at # "idle"})

\* a goroutine calls op on alias: it is now waiting for the lock
Invokes(p, op, alias, driver) ==
    /\ ~exited
    /\ callers[p].at = "idle"
    /\ PoolCalls < MaxPoolOps
    /\ callers' = [callers EXCEPT ![p] =
                     [at |-> "waiting", op |-> op, alias |-> alias, driver |-> driver,
                      boundAtCall |-> alias \in DOMAIN pool,
                      clientAtCall |-> IF alias \in DOMAIN pool THEN pool[alias]
                                       ELSE NoClient]]
    /\ UNCHANGED <<poolKind, pool, configs, mu, opened, poolLog, exited>>

\* the history entry of the call of p that returns now
Entry(p, r, dial) ==
    [proc |-> p, op |-> callers[p].op, alias |-> callers[p].alias,
     driver |-> IF poolKind = "gorm" /\ callers[p].alias \in DOMAIN configs
                THEN configs[callers[p].alias] ELSE callers[p].driver,
     dial |-> dial,
     boundAtCall |-> callers[p].boundAtCall, clientAtCall |-> callers[p].clientAtCall,
     before |-> pool, after |-> r.pool, ret |-> r.ret, fatal |-> r.fatal,
     client |-> IF callers[p].op = "Get" THEN r.client ELSE NoClient,
     opened |-> r.opened]

\* the call of p leaves the locked region with result r
Leaves(p, r, dial) ==
    /\ pool' = r.pool
    /\ opened' = opened + r.opened
    /\ poolLog' = Append(poolLog, Entry(p, r, dial))
    /\ exited' = r.fatal
    /\ callers' = [callers EXCEPT ![p] = NoCall]
    /\ UNCHANGED <<poolKind, configs>>

CallConnect ==
    \E p \in Procs, alias \in Aliases,
       driver \in (IF poolKind = "sql" THEN Drivers ELSE {""}) :
        Invokes(p, "Connect", alias, driver)

\* rc.mu.Lock(): no writer and no reader is inside
ConnectLock ==
    \E p \in Procs :
        /\ ~exited
        /\ callers[p].at = "waiting"
        /\ callers[p].op = "Connect"
        /\ mu = Unlocked
        /\ mu' = [mu EXCEPT !.writer = p]
        /\ callers' = [callers EXCEPT ![p].at = "locked"]
        /\ UNCHANGED <<poolKind, pool, configs, opened, poolLog, exited>>

\* the body of Connect and the deferred Unlock (log.Fatalf ends the process
\* with the lock held)
ConnectReturn ==
    \E p \in Procs, dial \in DialsOf(poolKind) :
        /\ ~exited
        /\ callers[p].at = "locked"
        /\ callers[p].op = "Connect"
        /\ LET r == Connect(poolKind, pool, configs, callers[p].alias,
                            callers[p].driver, dial, opened + 1)
           IN  /\ Leaves(p, r, dial)
               /\ mu' = IF r.fatal THEN mu ELSE Unlocked

CallGet == \E p \in Procs, alias \in Aliases : Invokes(p, "Get", alias, "")

\* rc.mu.RLock(): no writer is inside
GetRLock ==
    \E p \in Procs :
        /\ ~exited
        /\ callers[p].at = "waiting"
        /\ callers[p].op = "Get"
        /\ mu.writer = 0
        /\ mu' = [mu EXCEPT !.readers = @ \cup {p}]
        /\ callers' = [callers EXCEPT ![p].at = "locked"]
        /\ UNCHANGED <<poolKind, pool, configs, opened, poolLog, exited>>

\* the body of Get and the deferred RUnlock
GetReturn ==
    \E p \in Procs :
        /\ ~exited
        /\ callers[p].at = "locked"
        /\ callers[p].op = "Get"
        /\ LET r == Get(poolKind, pool, callers[p].alias, opened + 1)
           IN  /\ Leaves(p, r, "ok")
               /\ mu' = IF r.fatal THEN mu ELSE [mu EXCEPT !.readers = @ \ {p}]

\* database.AddConnection: Lock, configs[name] = config, Unlock
CallAddConnection ==
    \E name \in Aliases, driver \in Drivers :
        /\ ~exited
        /\ poolKind = "gorm"
        /\ mu = Unlocked
        /\ Cardinality(DOMAIN configs) + PoolCalls < MaxPoolOps
        /\ configs' = AddConnection(configs, name, driver)
        /\ UNCHANGED <<poolKind, pool, mu, callers, opened, poolLog, exited>>

(* --------------------------- specifications ---------------------------- *)

\* the application: registrations (Use, Group, GET, POST) and requests
Init == AppIdle /\ MatchIdle /\ SessionIdle /\ ContextIdle /\ PoolIdle /\ RaceIdle /\ FetchIdle

OnlyApp == UNCHANGED <<matchVars, sessVars, ctxVars, poolVars, raceVars, fetchVars>>

Next ==
    \/ CallAppUse /\ OnlyApp
    \/ CallRouterUse /\ OnlyApp
    \/ CallGroup /\ OnlyApp
    \/ CallGET /\ OnlyApp
    \/ CallPOST /\ OnlyApp
    \/ ServeHTTP /\ OnlyApp

Spec == Init /\ [][Next]_vars

\* the application with the bundled Recover middleware and panicking layers
NextRecover ==
    \/ CallAppUseRecover /\ OnlyApp
    \/ CallGETRecover /\ OnlyApp
    \/ ServeHTTP /\ OnlyApp

SpecRecover == Init /\ [][NextRecover]_vars

\* matchRoute alone, on every pattern and path up to MaxStrLen characters
InitMatch ==
    /\ mPattern \in Strs
    /\ mPath \in Strs
    /\ mRes = NotCalled
    /\ SessionIdle
    /\ ContextIdle
    /\ AppIdle
    /\ PoolIdle /\ RaceIdle /\ FetchIdle

NextMatch == CallMatchRoute /\ UNCHANGED <<sessVars, ctxVars, appVars, poolVars, raceVars, fetchVars>>

SpecMatch == InitMatch /\ [][NextMatch]_vars

\* the session type registry under sequences of RegisterSessionType calls
InitSession == SessionIdle /\ MatchIdle /\ ContextIdle /\ AppIdle /\ PoolIdle /\ RaceIdle /\ FetchIdle

NextSession == Register /\ UNCHANGED <<matchVars, ctxVars, appVars, poolVars, raceVars, fetchVars>>

SpecSession == InitSession /\ [][NextSession]_vars

\* one Context under outcome-reporting calls
InitContext == ContextIdle /\ MatchIdle /\ SessionIdle /\ AppIdle /\ PoolIdle /\ RaceIdle /\ FetchIdle

OnlyContext == UNCHANGED <<matchVars, sessVars, appVars, poolVars, raceVars, fetchVars>>

NextContext ==
    \/ FreshRequest /\ OnlyContext
    \/ CallUseLocale /\ OnlyContext
    \/ CallSuccess /\ OnlyContext
    \/ CallUnauthorized /\ OnlyContext
    \/ CallBadInput /\ OnlyContext
    \/ CallNotFound /\ OnlyContext
    \/ CallForbidden /\ OnlyContext
    \/ CallTooManyRequest /\ OnlyContext
    \/ CallConflict /\ OnlyContext
    \/ CallNotAllowed /\ OnlyContext
    \/ CallBadGateway /\ OnlyContext
    \/ CallUnavailable /\ OnlyContext
    \/ CallServerError /\ OnlyContext

SpecContext == InitContext /\ [][NextContext]_vars

\* one connection pool under concurrent Connect and Get calls
InitPool ==
    /\ poolKind \in PoolKinds
    /\ pool = <<>>
    /\ configs = <<>>
    /\ mu = Unlocked
    /\ callers = [p \in Procs |-> NoCall]
    /\ opened = 0
    /\ poolLog = <<>>
    /\ exited = FALSE
    /\ MatchIdle
    /\ SessionIdle
    /\ ContextIdle
    /\ AppIdle
    /\ RaceIdle
    /\ FetchIdle

OnlyPool == UNCHANGED <<matchVars, sessVars, ctxVars, appVars, raceVars, fetchVars>>

NextPool ==
    \/ CallConnect /\ OnlyPool
    \/ ConnectLock /\ OnlyPool
    \/ ConnectReturn /\ OnlyPool
    \/ CallGet /\ OnlyPool
    \/ GetRLock /\ OnlyPool
    \/ GetReturn /\ OnlyPool
    \/ CallAddConnection /\ OnlyPool

SpecPool == InitPool /\ [][NextPool]_vars

\* FetchSession on a Context, after the session types were registered
InitFetch ==
    /\ validSession \in Registries
    /\ regLog = <<>>
    /\ FetchIdle
    /\ ContextIdle
    /\ MatchIdle
    /\ AppIdle
    /\ PoolIdle
    /\ RaceIdle

OnlyFetch == UNCHANGED <<matchVars, appVars, poolVars, raceVars>>

NextFetch ==
    \/ CallSetSession /\ OnlyFetch
    \/ CallFetchSession /\ OnlyFetch

SpecFetch == InitFetch /\ [][NextFetch]_vars

\* two goroutines, each calling RegisterSessionType once
InitRace ==
    /\ RaceIdle /\ SessionIdle /\ MatchIdle /\ ContextIdle /\ AppIdle /\ PoolIdle
    /\ FetchIdle

OnlyRace == UNCHANGED <<matchVars, ctxVars, appVars, poolVars, fetchVars>>

NextRace ==
    \/ CallRegister /\ OnlyRace
    \/ RegisterNilCheck /\ OnlyRace
    \/ RegisterMake /\ OnlyRace
    \/ RegisterLookup /\ OnlyRace
    \/ RegisterStore /\ OnlyRace
    \/ RuntimeThrow /\ OnlyRace

SpecRace == InitRace /\ [][NextRace]_vars

(* ------------------- claims about the path matcher --------------------- *)

\* the positions of the separators of s, and its number of segments
SepPositions(s) == {i \in 1..Len(s) : s[i] = "/"}

SegCount(s) == Cardinality(SepPositions(s)) + 1

\* the k-th '/'-separated segment of s, read off the separator positions
SegAt(s, k) ==
    LET before == {i \in SepPositions(s) :
                      Cardinality({j \in SepPositions(s) : j < i}) = k - 2}
        after  == {i \in SepPositions(s) :
                      Cardinality({j \in SepPositions(s) : j < i}) = k - 1}
        from   == IF before = {} THEN 1 ELSE (CHOOSE i \in before : TRUE) + 1
        to     == IF after = {} THEN Len(s) ELSE (CHOOSE i \in after : TRUE) - 1
    IN  SubSeq(s, from, to)

IsParamSeg(seg) == seg # <<>> /\ Head(seg) = ":"

ParamPositions(s) == {k \in 1..SegCount(s) : IsParamSeg(SegAt(s, k))}

LiteralsAgree(pattern, path) ==
    \A k \in 1..SegCount(pattern) :
        ~IsParamSeg(SegAt(pattern, k)) => SegAt(pattern, k) = SegAt(path, k)

\* C4: whenever pattern and path have different numbers of '/'-separated
\* segments (a trailing slash included), matchRoute reports no match and
\* returns the nil parameter map.
C4_UnequalArityNoMatch ==
    (mRes.called /\ SegCount(mPattern) # SegCount(mPath))
        => (~mRes.ok /\ mRes.isNil /\ mRes.params = <<>>)

C4_Witness ==
    /\ mRes.called
    /\ mPattern = <<"/", "a">>
    /\ mPath = <<"/", "a", "/">>
    /\ ~mRes.ok

\* C5 as stated: with equal segment counts matchRoute matches iff all
\* literal segments agree, and on a match every parameter segment's name is
\* bound to the path segment at that segment's position, the parameter set
\* holding exactly those names.
C5_EveryParamBoundAtItsPosition ==
    (mRes.called /\ SegCount(mPattern) = SegCount(mPath))
        => /\ mRes.ok <=> LiteralsAgree(mPattern, mPath)
           /\ mRes.ok =>
                /\ DOMAIN mRes.params =
                      {Tail(SegAt(mPattern, k)) : k \in ParamPositions(mPattern)}
                /\ \A k \in ParamPositions(mPattern) :
                      mRes.params[Tail(SegAt(mPattern, k))] = SegAt(mPath, k)

\* C5 amended: as above, but a name carried by several parameter segments
\* is bound to the path segment at the LAST position that carries it.
C5_ParamBoundAtLastPosition ==
    (mRes.called /\ SegCount(mPattern) = SegCount(mPath))
        => /\ mRes.ok <=> LiteralsAgree(mPattern, mPath)
           /\ ~mRes.ok => mRes.isNil
           /\ mRes.ok =>
                /\ ~mRes.isNil
                /\ DOMAIN mRes.params =
                      {Tail(SegAt(mPattern, k)) : k \in ParamPositions(mPattern)}
                /\ \A k \in ParamPositions(mPattern) :
                      (\A j \in ParamPositions(mPattern) :
                          SegAt(mPattern, j) = SegAt(mPattern, k) => j <= k)
                        => mRes.params[Tail(SegAt(mPattern, k))] = SegAt(mPath, k)

\* the pattern "/:a/:a" on the path "/a/": the literal first segments
\* agree, the name a is carried twice and ends bound to the empty segment
C5_Witness ==
    /\ mRes.called
    /\ mPattern = <<":", "a", "/", ":", "a">>
    /\ mPath = <<"a", "/">>
    /\ mRes.ok
    /\ DOMAIN mRes.params = {<<"a">>}
    /\ mRes.params[<<"a">>] = <<>>

(* ---------------- claims about the session type registry --------------- *)

\* the concrete representation of a non-nil session: its struct type
Repr(session) == [ptr |-> FALSE, name |-> session.struct]

\* the calls of the log that returned, for discriminator d
SuccessfulCalls(d) ==
    {i \in 1..Len(regLog) :
        /\ regLog[i].panic = "none"
        /\ ~regLog[i].session.nil
        /\ regLog[i].session.disc = d}

\* C6: after any sequence of RegisterSessionType calls, panicking ones
\* included, a discriminator is bound iff some registration for it
\* succeeded, it is bound to the representation of the FIRST successful
\* registration, and no call changes a binding that exists.
C6_FirstRegistrationWins ==
    /\ \A d \in Discs :
          IF SuccessfulCalls(d) = {}
          THEN d \notin DOMAIN validSession.m
          ELSE /\ d \in DOMAIN validSession.m
               /\ LET first == CHOOSE i \in SuccessfulCalls(d) :
                                  \A j \in SuccessfulCalls(d) : i <= j
                  IN  validSession.m[d] = Repr(regLog[first].session)
    /\ \A i \in 1..Len(regLog) :
          \A d \in DOMAIN regLog[i].before.m :
              d \in DOMAIN regLog[i].after.m /\ regLog[i].after.m[d] = regLog[i].before.m[d]

\* a registration, then a conflicting one that panicked, the first one kept
C6_Witness ==
    /\ Len(regLog) >= 2
    /\ regLog[1].panic = "none"
    /\ regLog[1].session.struct = "AdminSession"
    /\ regLog[2].panic = "ErrConflict"
    /\ regLog[2].session.disc = regLog[1].session.disc
    /\ validSession.m[regLog[1].session.disc] = [ptr |-> FALSE, name |-> "AdminSession"]

\* C7: a call with the representation already bound to the discriminator
\* returns and leaves the registry unchanged; a call with a different
\* representation for a bound discriminator panics with ErrConflict; a call
\* with a nil session panics with ErrCannotBeNull; both panics leave the
\* registry exactly as it was.
C7_IdempotentOrFatal ==
    \A i \in 1..Len(regLog) :
        LET c == regLog[i]
            bound == ~c.session.nil /\ c.session.disc \in DOMAIN c.before.m
        IN  /\ c.session.nil => (c.panic = "ErrCannotBeNull" /\ c.after = c.before)
            /\ (bound /\ c.before.m[c.session.disc] = Repr(c.session))
                  => (c.panic = "none" /\ c.after = c.before)
            /\ (bound /\ c.before.m[c.session.disc] # Repr(c.session))
                  => (c.panic = "ErrConflict" /\ c.after = c.before)
            /\ (~c.session.nil /\ ~bound) => c.panic = "none"

\* one log holding a repeated registration, a conflicting one and a nil one
C7_Witness ==
    /\ Len(regLog) = 4
    /\ regLog[1].panic = "none"
    /\ regLog[2].panic = "none" /\ regLog[2].session.disc = regLog[1].session.disc
    /\ regLog[3].panic = "ErrConflict"
    /\ regLog[4].panic = "ErrCannotBeNull"

(* ------------------- claims about the request context ------------------ *)

\* the HTTP status each outcome-reporting operation stands for
FixedStatus(op) ==
    CASE op = "Success" -> 200
      [] op = "Unauthorized" -> 401
      [] op = "BadInput" -> 400
      [] op = "NotFound" -> 404
      [] op = "Forbidden" -> 403
      [] op = "TooManyRequest" -> 429
      [] op = "Conflict" -> 409
      [] op = "NotAllowed" -> 405
      [] op = "BadGateway" -> 502
      [] op = "Unavailable" -> 503
      [] op = "ServerError" -> 500

\* the document a call put on the wire (calls whose encoder failed put none)
Wrote(e) == Len(e.after.writer.body) = Len(e.before.writer.body) + 1

Written(e) == e.after.writer.body[Len(e.after.writer.body)]

\* C9: every outcome-reporting call records the operation's fixed status on
\* the Context, hands that same status to the response writer (where it
\* becomes the status line unless an earlier call already sent one), and
\* returns exactly the error it was given, whatever its kind; Success
\* returns no error.
C9_StatusRecordedWrittenErrorReturned ==
    \A i \in 1..Len(opLog) :
        LET e == opLog[i]
            calls == e.after.writer.headerCalls
        IN  /\ e.after.httpStatus = FixedStatus(e.op)
            /\ Len(calls) = Len(e.before.writer.headerCalls) + 1
            /\ calls[Len(calls)] = FixedStatus(e.op)
            /\ e.after.writer.wroteHeader
            /\ ~e.before.writer.wroteHeader
                  => e.after.writer.status = FixedStatus(e.op)
            /\ e.op = "Success" => e.ret = NoError
            /\ e.op \in ErrOps => e.ret = e.arg

\* a server-fault call on a fresh Context, with a structured fault
C9_Witness ==
    /\ Len(opLog) = 1
    /\ opLog[1].op = "Unavailable"
    /\ opLog[1].arg.kind = "fault"
    /\ ctx.httpStatus = 503
    /\ ctx.writer.status = 503
    /\ opLog[1].ret = opLog[1].arg

PlainCalls == {i \in 1..Len(opLog) : opLog[i].arg.kind = "plain" /\ Wrote(opLog[i])}

PlainEnvelope(e, key) ==
    /\ Written(e).code = FixedStatus(e.op)
    /\ Written(e).key = key
    /\ Written(e).val = [shape |-> "description", msg |-> e.arg.text,
                         localized |-> FALSE, lang |-> ""]

\* C10 as stated: for a plain error every client-fault (4xx) operation
\* emits {code, data} with data.description the error's text, and only
\* server-fault (5xx) operations emit {code, error}.
C10_OnlyServerFaultsUseErrorKey ==
    \A i \in PlainCalls :
        LET e == opLog[i]
        IN  /\ FixedStatus(e.op) < 500 => PlainEnvelope(e, "data")
            /\ Written(e).key = "error" => FixedStatus(e.op) >= 500

\* C10 amended: for a plain error Unauthorized, BadInput, NotFound,
\* Forbidden, TooManyRequest and Conflict emit {code, data} with
\* data.description the error's text; NotAllowed (405) and the server-fault
\* operations BadGateway, Unavailable and ServerError emit {code, error}
\* with error.description the error's text; Success emits {code, data}
\* with the data it was given.
C10_NotAllowedAlsoUsesErrorKey ==
    /\ \A i \in PlainCalls :
          LET e == opLog[i]
          IN  IF e.op \in {"NotAllowed", "BadGateway", "Unavailable", "ServerError"}
              THEN PlainEnvelope(e, "error")
              ELSE PlainEnvelope(e, "data")
    /\ \A i \in 1..Len(opLog) :
          (opLog[i].op = "Success" /\ Wrote(opLog[i]))
              => Written(opLog[i]) =
                    [code |-> 200, key |-> "data",
                     val |-> [shape |-> "bare", msg |-> opLog[i].arg.text,
                              localized |-> FALSE, lang |-> ""]]

\* BadInput with the plain error "missing field": status 400 and the body
\* {"code":400,"data":{"description":"missing field"}}; then NotAllowed
C10_Witness ==
    /\ Len(opLog) = 2
    /\ opLog[1].op = "BadInput" /\ opLog[1].arg.kind = "plain"
    /\ opLog[2].op = "NotAllowed" /\ opLog[2].arg.kind = "plain"
    /\ ctx.writer.status = 400
    /\ Len(ctx.writer.body) = 2
    /\ ctx.writer.body[1] =
          [code |-> 400, key |-> "data",
           val |-> [shape |-> "description", msg |-> "missing field",
                    localized |-> FALSE, lang |-> ""]]
    /\ ctx.writer.body[2].key = "error"

(* ------------ claims about the route registry and dispatcher ----------- *)

\* a sequence of sequences laid end to end
RECURSIVE Flat(_)
Flat(ss) == IF ss = <<>> THEN <<>> ELSE Head(ss) \o Flat(Tail(ss))

\* the events of entering the layers of a list in order, and of leaving
\* them in reverse order
Entered(ms) == [i \in 1..Len(ms) |-> [ev |-> "enter", id |-> ms[i]]]

Left(ms) == [i \in 1..Len(ms) |-> [ev |-> "exit", id |-> ms[Len(ms) + 1 - i]]]

\* pattern matches path: equal segment counts and agreeing literals
Fits(pattern, path) ==
    SegCount(pattern) = SegCount(path) /\ LiteralsAgree(pattern, path)

\* C1: for a matched request the global middleware are entered in App.Use
\* order, then the middleware of the route's frozen chain in registration
\* order, then the handler runs once, then the chain is left in reverse
\* order and the global middleware in reverse order.
C1_GlobalOutsideRouteInOrder ==
    (served.called /\ served.found)
        => served.events =
              Entered(served.appMw) \o Entered(served.entry.middleware)
                \o <<[ev |-> "handler", id |-> served.entry.handler]>>
                \o Left(served.entry.middleware) \o Left(served.appMw)

\* global [A, B], route [C, D]: A B C D handler D C B A
C1_Witness ==
    /\ served.found
    /\ served.appMw = <<"A", "B">>
    /\ served.entry.middleware = <<"C", "D">>
    /\ served.events =
          <<[ev |-> "enter", id |-> "A"], [ev |-> "enter", id |-> "B"],
            [ev |-> "enter", id |-> "C"], [ev |-> "enter", id |-> "D"],
            [ev |-> "handler", id |-> served.entry.handler],
            [ev |-> "exit", id |-> "D"], [ev |-> "exit", id |-> "C"],
            [ev |-> "exit", id |-> "B"], [ev |-> "exit", id |-> "A"]>>

\* the events of a matched request that belong to the route's chain: those
\* after the entries and before the exits of the global middleware
ChainEvents ==
    SubSeq(served.events, Len(served.appMw) + 1,
           Len(served.events) - Len(served.appMw))

\* C2 as stated: the LAST-registered middleware of the route's frozen chain
\* is the outermost of the chain: entered first and left last among them.
C2_LastRegisteredOutermost ==
    (served.called /\ served.found /\ served.entry.middleware # <<>>)
        => LET chain == served.entry.middleware
               last == chain[Len(chain)]
           IN  /\ ChainEvents[1] = [ev |-> "enter", id |-> last]
               /\ ChainEvents[Len(ChainEvents)] = [ev |-> "exit", id |-> last]

\* C2 amended: the FIRST-registered middleware of the route's frozen chain
\* is the outermost of the chain (entered first, left last among them) and
\* the last-registered one is the innermost (entered right before the
\* handler runs, left right after).
C2_FirstRegisteredOutermost ==
    (served.called /\ served.found /\ served.entry.middleware # <<>>)
        => LET chain == served.entry.middleware
               n == Len(chain)
           IN  /\ Len(ChainEvents) = 2 * n + 1
               /\ ChainEvents[1] = [ev |-> "enter", id |-> chain[1]]
               /\ ChainEvents[2 * n + 1] = [ev |-> "exit", id |-> chain[1]]
               /\ ChainEvents[n] = [ev |-> "enter", id |-> chain[n]]
               /\ ChainEvents[n + 1].ev = "handler"
               /\ ChainEvents[n + 2] = [ev |-> "exit", id |-> chain[n]]

\* a chain built from a group's [A] and the route's [C, D], no global one
C2_Witness ==
    /\ served.found
    /\ served.entry.middleware = <<"A", "C", "D">>
    /\ served.events[1] = [ev |-> "enter", id |-> "A"]
    /\ served.events[3] = [ev |-> "enter", id |-> "D"]
    /\ served.events[4].ev = "handler"

\* the request's method has a table holding a pattern that fits its path
SomeRouteFits ==
    /\ served.method \in DOMAIN routes
    /\ \E pattern \in DOMAIN routes[served.method] : Fits(pattern, served.path)

\* C3: a request whose method has no table, or whose path fits no pattern
\* of the method's table, is answered 404 by ServeHTTP itself: no handler,
\* no route or group middleware and no global middleware runs (and nothing
\* is logged), whatever App.Use registered.
C3_NoMatchNothingRuns ==
    (served.called /\ ~SomeRouteFits)
        => /\ ~served.found
           /\ served.events = <<>>
           /\ served.c.writer.wroteHeader /\ served.c.writer.status = 404
           /\ served.c.httpStatus = 0
           /\ served.ret = NoError
           /\ ~served.logged

\* global middleware and a GET table exist, the GET request fits nothing
C3_Witness ==
    /\ served.called
    /\ ~served.found
    /\ served.method = "GET"
    /\ "GET" \in DOMAIN routes
    /\ served.appMw = <<"A", "B">>
    /\ served.c.writer.status = 404

\* the pattern a registration asked for, from the arguments of the calls
AskedPattern(e) == Flat(e.prefixes) \o e.path

\* registration i was not replaced by a later one of the same key
Standing(i) ==
    \A j \in (i + 1)..Len(regs) :
        ~(regs[j].method = regs[i].method /\ AskedPattern(regs[j]) = AskedPattern(regs[i]))

\* C8: a route registered with path p and middleware R through a group
\* built by Group calls with prefixes p1..pn and lists G1..Gn is stored in
\* the one route table under the pattern p1+...+pn+p, with the handler and
\* the chain G1 ++ ... ++ Gn ++ R (R always comes last in the chain; the
\* chain is exactly the Group lists and R unless Router.Use added more).
C8_GroupChainBeforeRouteChain ==
    \A i \in 1..Len(regs) :
        Standing(i) =>
            LET e == regs[i]
                pattern == AskedPattern(e)
            IN  /\ e.method \in DOMAIN routes
                /\ pattern \in DOMAIN routes[e.method]
                /\ routes[e.method][pattern].handler = e.handler
                /\ LET chain == routes[e.method][pattern].middleware
                   IN  /\ Len(chain) >= Len(e.mws)
                       /\ SubSeq(chain, Len(chain) - Len(e.mws) + 1, Len(chain)) = e.mws
                       /\ ~e.used => chain = Flat(e.groupMws) \o e.mws

\* GET "/:a" with [C, D] through the group ("/:a", [B]) of the group
\* ("/a", [A]): the pattern "/a/:a/:a" with the chain [A, B, C, D]
C8_Witness ==
    /\ Len(regs) = 1
    /\ regs[1].method = "GET"
    /\ regs[1].prefixes = << <<"/", "a">>, <<"/", ":", "a">> >>
    /\ regs[1].groupMws = << <<"A">>, <<"B">> >>
    /\ regs[1].mws = <<"C", "D">>
    /\ "GET" \in DOMAIN routes
    /\ <<"/", "a", "/", ":", "a", "/", ":", "a">> \in DOMAIN routes["GET"]
    /\ routes["GET"][<<"/", "a", "/", ":", "a", "/", ":", "a">>].middleware
          = <<"A", "B", "C", "D">>

\* the registration made by this step, if it made one
Registers(m, p) ==
    /\ Len(regs') = Len(regs) + 1
    /\ regs'[Len(regs')].method = m
    /\ AskedPattern(regs'[Len(regs')]) = p

\* C17: a step (Use on the application or on any Router, Group, a
\* registration, a dispatched request) leaves every route entry in place with
\* the same handler and the same middleware list, except the entry of the
\* very (method, pattern) that the step registers again.
C17_RouteEntriesFrozen ==
    [][\A m \in DOMAIN routes : \A p \in DOMAIN routes[m] :
           \/ Registers(m, p)
           \/ /\ m \in DOMAIN routes'
              /\ p \in DOMAIN routes'[m]
              /\ routes'[m][p] = routes[m][p]]_vars

\* GET on the root Router, then Router.Use on it and the registration of
\* another key, then a request dispatched to the first route: its entry is
\* still the handler and the chain it was registered with
C17_Witness ==
    /\ Len(regs) = 2
    /\ regs[1].prefixes = <<>>
    /\ ~regs[1].used
    /\ lineage[1].used
    /\ ~(regs[2].method = regs[1].method /\ AskedPattern(regs[2]) = AskedPattern(regs[1]))
    /\ AskedPattern(regs[2]) = AskedPattern(regs[1])
    /\ served.found
    /\ served.method = regs[1].method
    /\ served.route = AskedPattern(regs[1])
    /\ served.entry = [handler |-> regs[1].handler, middleware |-> regs[1].mws]
    /\ routes[regs[1].method][AskedPattern(regs[1])] = served.entry

\* C18: route selection is deterministic: for the request served last, every
\* pattern at which the dispatcher's loop over the method's table could have
\* stopped leads to the route entry that was dispatched to and to the
\* parameters the request received.
C18_SelectionDeterministic ==
    served.found =>
        \A route \in Candidates(routes, served.method, served.path) :
            /\ routes[served.method][route] = served.entry
            /\ matchRoute(route, served.path).params = served.c.Params

(* ---------------------- claims about FetchSession --------------------- *)

Attached == ~fetched.session.nil

RegisteredDisc == Attached /\ fetched.session.disc \in DOMAIN validSession.m

\* the session's representation is the one registered for its discriminator
SameRepr ==
    RegisteredDisc /\ validSession.m[fetched.session.disc] = ModelType(fetched.session)

Copied == fetched.after.val = fetched.session /\ fetched.after # fetched.dst

\* C16 as stated: the session is copied only when one is attached, its
\* discriminator is registered and its representation is the registered one;
\* with no session or an unregistered discriminator the call returns the
\* unauthorized error, with another representation the type-mismatch error,
\* and on every error the destination is unchanged.
C16_FetchOnlyRegisteredRepresentation ==
    fetched.called =>
        /\ (fetched.err = "nil" \/ Copied) => (Attached /\ RegisteredDisc /\ SameRepr)
        /\ (~Attached \/ ~RegisteredDisc) => fetched.err = "ErrUnauthorized"
        /\ (RegisteredDisc /\ ~SameRepr) => fetched.err = "ErrTypeMismatch"
        /\ fetched.err # "nil" => fetched.after = fetched.dst

\* the destination is a non-nil pointer to a variable that can hold the session
FitDst ==
    /\ fetched.dst.kind = "ptr"
    /\ (fetched.dst.elem.iface \/
        (/\ fetched.dst.elem.ptr = fetched.session.ptr
         /\ fetched.dst.elem.name = fetched.session.struct))

\* C16, amended: as stated for a destination that is not nil; with a session
\* attached and a nil destination the call returns the cannot-be-null error,
\* whatever the registry holds; with a registered, matching representation
\* the session is copied when the destination is a non-nil pointer to a
\* variable its type is assignable to, and the call returns the type-mismatch
\* error otherwise; on every error the destination is unchanged.
C16_FetchChecksDestinationFirst ==
    fetched.called =>
        /\ (fetched.err = "nil" \/ Copied) =>
               (Attached /\ RegisteredDisc /\ SameRepr /\ FitDst /\ Copied)
        /\ ~Attached => fetched.err = "ErrUnauthorized"
        /\ (Attached /\ fetched.dst.kind = "nil") => fetched.err = "ErrCannotBeNull"
        /\ (Attached /\ fetched.dst.kind # "nil" /\ ~RegisteredDisc) =>
               fetched.err = "ErrUnauthorized"
        /\ (fetched.dst.kind # "nil" /\ RegisteredDisc /\ ~SameRepr) =>
               fetched.err = "ErrTypeMismatch"
        /\ (fetched.dst.kind # "nil" /\ SameRepr /\ ~FitDst) =>
               fetched.err = "ErrTypeMismatch"
        /\ (SameRepr /\ FitDst) => fetched.err = "nil"
        /\ fetched.err # "nil" => fetched.after = fetched.dst

\* a pointer session of the registered struct was copied into a variable of
\* its pointer type, while the other discriminator holds another struct
C16_Witness ==
    /\ fetched.called
    /\ fetched.err = "nil"
    /\ fetched.session.ptr
    /\ fetched.dst.elem.ptr
    /\ Copied
    /\ SameRepr
    /\ \E d \in DOMAIN validSession.m :
           validSession.m[d] # ModelType(fetched.session)

(* ------------- claims about errors, panics and the log line ------------ *)

\* C14: no error is discarded: for every matched request the dispatcher
\* reaches its log line; an error returned by the composed handler is the
\* logged message; and when the response encoder failed inside an operation
\* of the Context, the composed handler returns an error, so that the log line
\* does not say "success".
C14_NoErrorDiscarded ==
    (served.found /\ ~served.panicked) =>
        /\ served.logged
        /\ (served.ret # NoError => served.log.message = served.ret.text)
        /\ (served.c.writer.encodeErrs > 0 =>
               /\ served.ret # NoError
               /\ served.log.message # "success")

\* the composed handler of the request served last
Final == Compose(served.entry, served.appMw)

\* the layer of Final that panics: the first that does, as nothing inside it runs
PanicLayers == {"P", "hPanic", "hWritePanic"}

PanicAt ==
    LET js == {j \in 1..Len(Final) : Final[j] \in PanicLayers}
    IN  IF js = {} THEN 0 ELSE CHOOSE j \in js : \A i \in js : j <= i

\* the Recover around the panicking layer that is nearest to it
RecoverAt ==
    LET ks == {k \in 1..Len(Final) : Final[k] = "R" /\ k < PanicAt}
    IN  IF ks = {} THEN 0 ELSE CHOOSE k \in ks : \A i \in ks : i <= k

Noted(e) == \E n \in 1..Len(served.events) : served.events[n] = e

\* how many times the event was noted
Times(e) == Cardinality({n \in 1..Len(served.events) : served.events[n] = e})

\* the places of the middleware id in Final outside place k
Layers(id, k) == {i \in 1..Len(Final) : Final[i] = id /\ i < k}

LastOf(seq) == seq[Len(seq)]

\* C15: when a layer inside an installed Recover panics, the panic does not
\* leave Recover: the Context records status 500, WriteHeader(500) is called
\* and the server-error envelope is encoded, the composed handler returns the
\* non-nil recover error, the dispatcher logs that error with status 500,
\* and every logging middleware outside Recover sees next return (it notes its
\* exit), while those between Recover and the panic are entered and unwound.
C15_RecoverStopsPanic ==
    (served.found /\ PanicAt > 0 /\ RecoverAt > 0) =>
        /\ ~served.panicked
        /\ Noted(RecoverEv("R"))
        /\ served.c.httpStatus = StatusInternalServerError
        /\ LastOf(served.c.writer.headerCalls) = StatusInternalServerError
        /\ (served.c.writer.encodeErrs = 0 =>
               LastOf(served.c.writer.body) =
                   Envelope(StatusInternalServerError, "error",
                            Description(RawValue(RecoverError.text))))
        /\ served.ret = RecoverError
        /\ served.ret # NoError
        /\ served.logged
        /\ served.log.status = StatusInternalServerError
        /\ served.log.message = "internal panic recover"
        /\ \A id \in Middlewares :
               /\ Times(EnterEv(id)) = Cardinality(Layers(id, PanicAt))
               /\ Times(ExitEv(id)) = Cardinality(Layers(id, RecoverAt))

\* the logging middleware A is outside Recover, the handler inside panicked,
\* A noted its exit and the dispatcher logged the recover error
C15_Witness ==
    /\ served.found
    /\ PanicAt > RecoverAt
    /\ RecoverAt > 1
    /\ Final[1] = "A"
    /\ Noted(ExitEv("A"))
    /\ Noted(PanicEv(Final[PanicAt]))
    /\ served.logged
    /\ served.log.message = "internal panic recover"

\* C19: for every matched request in which a response was written, the status
\* recorded on the Context, which is the status of the log line, is the
\* status code written to the response.
C19_LoggedStatusIsWrittenStatus ==
    (served.found /\ served.logged /\ served.c.writer.wroteHeader) =>
        /\ served.log.status = served.c.httpStatus
        /\ served.c.httpStatus = served.c.writer.status

(* ------------- claims about concurrent session registration ----------- *)

\* the goroutine's call is over: it returned or it panicked
Concluded(p) == registrars[p].at \in {"returned", "panicked"}

\* p and q registered different representations for one discriminator
Rivals(p, q) ==
    /\ p # q
    /\ Concluded(p) /\ Concluded(q)
    /\ registrars[p].panic # "ErrCannotBeNull"
    /\ registrars[q].panic # "ErrCannotBeNull"
    /\ registrars[p].session.disc = registrars[q].session.disc
    /\ ModelType(registrars[p].session) # ModelType(registrars[q].session)

\* C12: when two callers register different representations for the same
\* discriminator, whatever the interleaving, exactly one call returns and the
\* other panics with the conflict error, and the registry holds the
\* representation of the call that returned.
C12_ExactlyOneRivalRegistrationWins ==
    \A p, q \in Procs :
        Rivals(p, q) /\ registrars[p].at = "returned" =>
            /\ registrars[q].at = "panicked"
            /\ registrars[q].panic = "ErrConflict"
            /\ registrars[p].session.disc \in DOMAIN validSession.m
            /\ validSession.m[registrars[p].session.disc] = ModelType(registrars[p].session)

(* -------------------- claims about the connection pools ---------------- *)

ConnectCalls == {i \in 1..Len(poolLog) : poolLog[i].op = "Connect"}

GetCalls == {i \in 1..Len(poolLog) : poolLog[i].op = "Get"}

\* the call found the alias bound: when it was made, or once it had the lock
FoundBound(e) == e.boundAtCall \/ e.alias \in DOMAIN e.before

\* every binding the call found is still there, with the same client
KeptAll(e) == \A a \in DOMAIN e.before : a \in DOMAIN e.after /\ e.after[a] = e.before[a]

\* C11: in each pool, under every interleaving of concurrent Connect and Get
\* calls, a Connect for an alias that is already bound returns nil, creates no
\* client and leaves the stored client in place; no call ever replaces or
\* removes a binding; a Get for an alias that is not bound fails (an error, or
\* log.Fatalf in package database), adds no entry and creates no client.
C11_ConnectIdempotentGetNeverAdds ==
    \A i \in 1..Len(poolLog) :
        LET e == poolLog[i]
        IN  /\ KeptAll(e)
            /\ (e.boundAtCall => /\ e.alias \in DOMAIN e.before
                                 /\ e.before[e.alias] = e.clientAtCall)
            /\ (e.op = "Connect" /\ FoundBound(e)) =>
                   /\ e.ret = "nil"
                   /\ ~e.fatal
                   /\ e.opened = 0
                   /\ e.after = e.before
            /\ e.op = "Get" =>
                   /\ e.after = e.before
                   /\ e.opened = 0
                   /\ (e.alias \notin DOMAIN e.before =>
                          /\ (e.ret = "error" \/ e.fatal)
                          /\ e.client = NoClient)
                   /\ (e.alias \in DOMAIN e.before =>
                          /\ e.ret = "nil"
                          /\ e.client = e.before[e.alias])

\* two Connect calls for one alias were in flight together, the first bound
\* it and the second was a no-op; a Get for an alias not bound has failed
C11_Witness ==
    /\ \E i, j \in ConnectCalls :
           /\ i < j
           /\ poolLog[i].alias = poolLog[j].alias
           /\ poolLog[i].proc # poolLog[j].proc
           /\ poolLog[i].opened = 1
           /\ poolLog[i].alias \in DOMAIN poolLog[i].after
           /\ ~poolLog[j].boundAtCall
           /\ poolLog[j].ret = "nil"
           /\ poolLog[j].opened = 0
    /\ \E k \in GetCalls :
           /\ poolLog[k].alias \notin DOMAIN poolLog[k].before
           /\ (poolLog[k].ret = "error" \/ poolLog[k].fatal)

\* the Connect named a driver that is not supported (the redis pool has none)
UnsupportedDriver(e) ==
    poolKind # "cache" /\ e.driver \notin {"mysql", "postgres"}

\* the Connect got past the early return and then could not connect
FailedConnects ==
    {i \in ConnectCalls : /\ poolLog[i].alias \notin DOMAIN poolLog[i].before
                          /\ (UnsupportedDriver(poolLog[i]) \/ poolLog[i].dial # "ok")}

AllUsable == \A a \in DOMAIN pool : pool[a].usable

\* C13 as stated: in every pool a Connect whose first connectivity check
\* fails, or that names an unsupported driver, ends the process (it returns no
\* error), and no alias is ever bound to an unusable client.
C13_FailedConnectAborts ==
    /\ AllUsable
    /\ \A i \in FailedConnects :
           /\ poolLog[i].fatal
           /\ poolLog[i].ret = "none"
           /\ poolLog[i].after = poolLog[i].before

\* C13, amended: an unsupported driver ends the process in the sql pool and
\* in package database; a failed open or ping ends the process in package
\* database only, while the redis pool and the sql pool return the error to
\* the caller and go on; in every such case the alias stays unbound, and no
\* alias is ever bound to an unusable client.
C13_FailedConnectAbortsOrReturnsError ==
    /\ AllUsable
    /\ \A i \in FailedConnects :
           LET e == poolLog[i]
           IN  /\ e.after = e.before
               /\ e.alias \notin DOMAIN e.after
               /\ (poolKind = "gorm" \/ UnsupportedDriver(e)) =>
                      e.fatal /\ e.ret = "none" /\ exited
               /\ (poolKind # "gorm" /\ ~UnsupportedDriver(e)) =>
                      ~e.fatal /\ e.ret = "error"

\* a Connect whose ping failed has returned its error, the alias unbound,
\* and a later Connect with an unsupported driver has ended the process
C13_Witness ==
    \E i, j \in FailedConnects :
        /\ i < j
        /\ poolLog[i].dial = "ping error"
        /\ poolLog[i].ret = "error"
        /\ poolLog[i].alias \notin DOMAIN pool
        /\ UnsupportedDriver(poolLog[j])
        /\ poolLog[j].fatal

====
